---------------------------- MODULE Spec2Model ----------------------------
(***************************************************************************)
(* A model of the sopel-contextualreminders plugin: the context buffer,    *)
(* reminder creation, the delivery job (check_ctx_reminder_jobs), the      *)
(* pastebin job (interval_check_upcoming_reminders) and the persistence    *)
(* file, as coded in src/contextualreminders.                              *)
(*                                                                         *)
(* Conventions.                                                            *)
(*  - Time is an integer number of ticks, TicksPerSecond ticks a second,   *)
(*    so that datetimes carry a sub-second part as Python's do.            *)
(*  - A Python str that the code slices (channel names, hostmasks) is a    *)
(*    sequence of one-character strings; "" is << >>.  Other strings       *)
(*    (nicknames, messages, buffer lines) are opaque values.               *)
(*  - Reminder objects live in heap, a sequence indexed by object id; the  *)
(*    store and the publisher's list hold ids, as the Python lists hold    *)
(*    references to the same objects.                                      *)
(***************************************************************************)
EXTENDS Integers, Sequences, FiniteSets, TLC

(***************************************************************************)
(* Program constants.                                                      *)
(***************************************************************************)
PASTEBIN_API_DELAY == 10
UPCOMING_REMINDERS_WITH_CONTEXT_PASTEBIN_INTERVAL == 3600
CHECK_UPCOMING_REMINDERS_WITH_CONTEXT_INTERVAL == 5
FILE_VERSION == 1

\* datetimes are finer than a second; isoformat(timespec="seconds") is not
TicksPerSecond == 2

(***************************************************************************)
(* Bounds of the model.                                                    *)
(***************************************************************************)
MaxRem == 2              \* reminders created in one behaviour
MaxTicks == 1            \* clock advances in one behaviour
MaxAppends == 4          \* messages captured in one behaviour
MaxCap == 3              \* largest configured context_capture_chat_lines
MaxSecs == 3             \* longest duration asked for, in seconds
MaxWordLen == 6          \* longest enumerated argument string

StartTime == PASTEBIN_API_DELAY * TicksPerSecond   \* wall clock at start
Secs(n) == n * TicksPerSecond                      \* n seconds, in ticks

Min(a, b) == IF a < b THEN a ELSE b

(***************************************************************************)
(* Python string slicing on character sequences: s[0:n] and s[n:].         *)
(***************************************************************************)
PyHead(s, n) == SubSeq(s, 1, Min(n, Len(s)))
PyTail(s, n) == SubSeq(s, n + 1, Len(s))

PRIVMSG == <<"P", "R", "I", "V", "M", "S", "G">>
EmptyStr == << >>

(***************************************************************************)
(* The environment: one shared channel, one nickname.                      *)
(***************************************************************************)
Nicks == {"a"}
ChanC == <<"#", "c">>
Channels == {ChanC}
Hostmask(nick) == <<nick, "!", "u", "@", "h">>
Messages == {<<"m">>}

VARIABLES
    now,              \* the wall clock, in ticks
    ticks,            \* number of clock advances so far
    conf,             \* bot.settings.ctxreminders: min, max, chat_lines
    connected,        \* bot.backend.connected
    channels,         \* bot.channels: channel name -> set of nicknames in it
    users,            \* bot.users: nickname -> hostmask
    heap,             \* the ContextualReminder objects created so far
    reminders,        \* bot.memory[..]["reminders"]: dict, in insertion order
    context_buffer,   \* bot.memory[..]["context_buffer"]: channel -> lines
    appended,         \* history: every line ever appended, per channel
    file,             \* the persistence file
    sched_pc,         \* position of check_ctx_reminder_jobs
    reminders_as_at,  \* its local reminders_as_at
    delivered,        \* history: object id -> number of times it was said
    pub_pc,           \* position of interval_check_upcoming_reminders
    upcoming,         \* its local upcoming_reminders, flattened in loop order
    pub_i,            \* index of the loop over upcoming
    last_api_call_ts, \* local of create_pastebin_entries
    pub_next_ts,      \* earliest time of the next publisher run
    n_pastes,         \* number of pastes created so far
    last_upload_start,\* history: start time of the last upload call, or -1
    parse_input,      \* the string given to parse_reminder_string
    parse_output,     \* what parse_reminder_string returned or raised
    raised,           \* the exception that ended the last handler, or "none"
    replies,          \* what the last command answered to its requester
    log,              \* levels of the records logged so far
    tmp_file,         \* the temporary file of save_reminders_to_persistence
    started,          \* whether setup has run
    pending           \* reminder_in's reminder, created and not yet persisted

vars == <<now, ticks, conf, connected, channels, users, heap, reminders,
          context_buffer, appended, file, sched_pc, reminders_as_at,
          delivered, pub_pc, upcoming, pub_i, last_api_call_ts, pub_next_ts,
          n_pastes, last_upload_start, parse_input, parse_output, raised,
          replies, log, tmp_file, started, pending>>

(***************************************************************************)
(* Configuration numbers (NumberAttribute): a number, math.inf, or unset.  *)
(***************************************************************************)
Num(n) == [k |-> "num", v |-> n]
Inf == [k |-> "inf", v |-> 0]
None == [k |-> "none", v |-> 0]

\* `value or 0`
PyOr0(c) == IF c.k = "none" THEN Num(0) ELSE c
\* x >= c and x <= c for a finite x
GeConf(x, c) == c.k # "inf" /\ x >= c.v
LeConf(x, c) == c.k = "inf" \/ x <= c.v

(***************************************************************************)
(* types.py: ContextualReminder is a dataclass with eq=True: two reminders *)
(* are equal when all eight fields are.                                    *)
(***************************************************************************)
ContextualReminder(set_at, due_at, nickname, channel, message, pastebin_url, has_context, context_lines) ==
    [set_at |-> set_at, due_at |-> due_at, nickname |-> nickname,
     channel |-> channel, message |-> message, pastebin_url |-> pastebin_url,
     has_context |-> has_context, context_lines |-> context_lines]

ReminderEqIgnoringUrl(r1, r2) ==
    [r1 EXCEPT !.pastebin_url = EmptyStr] = [r2 EXCEPT !.pastebin_url = EmptyStr]

ReminderEq(r1, r2) == r1 = r2

(***************************************************************************)
(* The store: a dict channel -> list of reminders, in insertion order,     *)
(* kept as a sequence of entries [channel, list of object ids].            *)
(***************************************************************************)
StoreKeys(store) == {store[k].channel : k \in 1..Len(store)}
StoreIdx(store, ch) == CHOOSE k \in 1..Len(store) : store[k].channel = ch
StoreIds(store) == UNION {{store[k].list[i] : i \in 1..Len(store[k].list)} :
                          k \in 1..Len(store)}

(***************************************************************************)
(* A trigger: a line received from a channel or in a private conversation. *)
(***************************************************************************)
Trigger(is_nick, sender, nick, time) ==
    [is_nick |-> is_nick, sender |-> sender, nick |-> nick,
     hostmask |-> Hostmask(nick), time |-> time]

get_channel_from_sender(trigger) ==
    IF trigger.is_nick
    THEN PRIVMSG \o <<"-">> \o trigger.hostmask
    ELSE trigger.sender

(***************************************************************************)
(* parse_reminder_string.  IN_RE is matched as Python's re matches it: the *)
(* four alternatives in order, each optional group greedy, giving a group  *)
(* up when what follows cannot match.  A group that did not take part in   *)
(* the match is None.                                                      *)
(***************************************************************************)
DigitChars == <<"0", "1", "2", "3", "4", "5", "6", "7", "8", "9">>
IsDigit(c) == \E k \in 1..Len(DigitChars) : DigitChars[k] = c
IsSpace(c) == c = " "
DigitValue(c) == (CHOOSE k \in 1..Len(DigitChars) : DigitChars[k] = c) - 1

NoGroup == [none |-> TRUE, str |-> << >>]
Group(str) == [none |-> FALSE, str |-> str]

\* \d+ from position i: the position after the last digit
RECURSIVE DigitsEnd(_, _)
DigitsEnd(s, i) ==
    IF i <= Len(s) /\ IsDigit(s[i]) THEN DigitsEnd(s, i + 1) ELSE i

\* int(str)
RECURSIVE PyInt(_)
PyInt(str) ==
    IF str = << >> THEN 0
    ELSE 10 * PyInt(SubSeq(str, 1, Len(str) - 1)) + DigitValue(str[Len(str)])

\* int(i or 0)
IntOr0(g) == IF g.none \/ g.str = << >> THEN 0 ELSE PyInt(g.str)

\* (?:(\d+)u) at i, after \s? when ws: whether it matches, where it ends,
\* and its group
MatchField(s, i, unit, ws) ==
    LET start == IF ws /\ i <= Len(s) /\ IsSpace(s[i]) THEN i + 1 ELSE i
        d == DigitsEnd(s, start)
    IN  IF d > start /\ d <= Len(s) /\ s[d] = unit
        THEN [ok |-> TRUE, end |-> d + 1, group |-> Group(SubSeq(s, start, d - 1))]
        ELSE [ok |-> FALSE, end |-> i, group |-> NoGroup]

\* \s+ from position i: the position after the last whitespace
RECURSIVE SpacesEnd(_, _)
SpacesEnd(s, i) ==
    IF i <= Len(s) /\ IsSpace(s[i]) THEN SpacesEnd(s, i + 1) ELSE i

\* \s+(?P<text>\S+.*) at i
MatchText(s, i) ==
    LET j == SpacesEnd(s, i)
    IN  IF j > i /\ j <= Len(s)
        THEN [ok |-> TRUE, text |-> SubSeq(s, j, Len(s))]
        ELSE [ok |-> FALSE, text |-> << >>]

\* the optional groups of the units left, then the text: each group is
\* tried matched first, and skipped when the rest fails with it
RECURSIVE MatchRest(_, _, _)
MatchRest(s, i, units) ==
    IF units = << >>
    THEN LET t == MatchText(s, i)
         IN  [ok |-> t.ok, groups |-> << >>, text |-> t.text, end |-> i]
    ELSE LET f == MatchField(s, i, Head(units), TRUE)
             taken == IF f.ok THEN MatchRest(s, f.end, Tail(units))
                      ELSE [ok |-> FALSE, groups |-> << >>, text |-> << >>,
                            end |-> i]
             skipped == MatchRest(s, i, Tail(units))
         IN  IF taken.ok
             THEN [taken EXCEPT !.groups = <<f.group>> \o @]
             ELSE [skipped EXCEPT !.groups = <<NoGroup>> \o @]

\* one alternative of IN_TIME_PATTERN followed by the text
MatchAlternative(s, units) ==
    LET f == MatchField(s, 1, Head(units), FALSE)
        r == IF f.ok THEN MatchRest(s, f.end, Tail(units))
             ELSE [ok |-> FALSE, groups |-> << >>, text |-> << >>, end |-> 1]
    IN  IF r.ok
        THEN [ok |-> TRUE, text |-> r.text,
              groups |-> <<Group(SubSeq(s, 1, r.end - 1)), f.group>> \o r.groups]
        ELSE [ok |-> FALSE, text |-> << >>,
              groups |-> [k \in 1..(Len(units) + 1) |-> NoGroup]]

IN_TIME_PATTERN ==
    <<<<"d", "h", "m", "s">>, <<"h", "m", "s">>, <<"m", "s">>, <<"s">>>>

\* the first alternative that matches, 0 when none does
FirstAlternative(alt) ==
    IF \E k \in 1..4 : alt[k].ok
    THEN CHOOSE k \in 1..4 : alt[k].ok /\ \A j \in 1..(k - 1) : ~alt[j].ok
    ELSE 0

\* the groups of alternative k when alternative first is the one that matched
GroupsOfAlternative(alt, first, k) ==
    IF k = first THEN alt[k].groups
    ELSE [j \in 1..(Len(IN_TIME_PATTERN[k]) + 1) |-> NoGroup]

\* parse_result.groups() when alternative first matched, or no match
MatchOf(alt, first) ==
    [matched |-> first # 0,
     groups |-> IF first = 0 THEN << >>
                ELSE GroupsOfAlternative(alt, first, 1)
                     \o GroupsOfAlternative(alt, first, 2)
                     \o GroupsOfAlternative(alt, first, 3)
                     \o GroupsOfAlternative(alt, first, 4)
                     \o <<Group(alt[first].text)>>]

\* IN_RE.match(word_line)
IN_RE(word_line) ==
    MatchOf([k \in 1..4 |-> MatchAlternative(word_line, IN_TIME_PATTERN[k])],
            FirstAlternative([k \in 1..4 |->
                MatchAlternative(word_line, IN_TIME_PATTERN[k])]))

\* str(n)
RECURSIVE Decimal(_)
Decimal(n) ==
    IF n < 10 THEN <<DigitChars[n + 1]>>
    ELSE Decimal(n \div 10) \o <<DigitChars[(n % 10) + 1]>>

\* the arguments "<secs>s <message>" of the command
ArgsOf(secs, message) == Group(Decimal(secs) \o <<"s", " ">> \o message)

\* dt.timedelta(days, seconds, minutes, hours), as its total_seconds()
TimedeltaMinutesAsHours(days, seconds, minutes, hours) ==
    days * 86400 + minutes * 3600 + hours * 60 + seconds

timedelta(days, seconds, minutes, hours) ==
    days * 86400 + hours * 3600 + minutes * 60 + seconds

\* the time fields of the alternative that matched; groups[n] of the code is
\* g[n + 1] here
TimeFields(g) ==
    IF ~g[1].none /\ g[1].str # << >>
    THEN [days |-> IntOr0(g[2]), hours |-> IntOr0(g[3]),
          minutes |-> IntOr0(g[4]), seconds |-> IntOr0(g[5])]
    ELSE IF ~g[6].none /\ g[6].str # << >>
    THEN [days |-> 0, hours |-> IntOr0(g[7]),
          minutes |-> IntOr0(g[8]), seconds |-> IntOr0(g[9])]
    ELSE IF ~g[10].none /\ g[10].str # << >>
    THEN [days |-> 0, hours |-> 0, minutes |-> IntOr0(g[11]),
          seconds |-> IntOr0(g[12])]
    ELSE [days |-> 0, hours |-> 0, minutes |-> 0, seconds |-> IntOr0(g[14])]

\* parse_reminder_string after the match
ParsedFrom(parse_result) ==
    IF ~parse_result.matched
    THEN [raised |-> "ValueError", delta |-> 0, message |-> << >>]
    ELSE [raised |-> "none",
          delta |-> timedelta(TimeFields(parse_result.groups).days,
                              TimeFields(parse_result.groups).seconds,
                              TimeFields(parse_result.groups).minutes,
                              TimeFields(parse_result.groups).hours),
          message |-> parse_result.groups[15].str]

parse_reminder_string(word_line) == ParsedFrom(IN_RE(word_line))

(***************************************************************************)
(* The context buffer.                                                     *)
(***************************************************************************)
AddMessageEvictingNewest(buf, channel, message, maximum_buffer_lines) ==
    LET old == IF channel \in DOMAIN buf THEN buf[channel] ELSE << >>
        app == Append(old, message)
        new == IF Len(app) > maximum_buffer_lines /\ Len(app) >= 1
               THEN old ELSE app
    IN  [c \in DOMAIN buf \cup {channel} |-> IF c = channel THEN new ELSE buf[c]]

add_message_to_context_buffer(buf, channel, message, maximum_buffer_lines) ==
    LET old == IF channel \in DOMAIN buf THEN buf[channel] ELSE << >>
        app == Append(old, message)
        new == IF Len(app) > maximum_buffer_lines /\ Len(app) >= 1
               THEN Tail(app) ELSE app
    IN  [c \in DOMAIN buf \cup {channel} |-> IF c = channel THEN new ELSE buf[c]]

\* bot.memory[...]["context_buffer"][channel_name]: a KeyError when absent
capture_context_snapshot(buf, channel_name) ==
    IF channel_name \in DOMAIN buf
    THEN [raised |-> FALSE, lines |-> buf[channel_name]]
    ELSE [raised |-> TRUE, lines |-> << >>]

(***************************************************************************)
(* Reminder creation.                                                      *)
(***************************************************************************)
InCaptureWindowOpen(secs, cfg) ==
    /\ secs > PyOr0(cfg.min).v /\ PyOr0(cfg.min).k # "inf"
    /\ LeConf(secs, PyOr0(cfg.max))

\* lines 260-264
InCaptureWindow(secs, cfg) ==
    /\ GeConf(secs, PyOr0(cfg.min))
    /\ LeConf(secs, PyOr0(cfg.max))

SnapshotHeader(channel, t) == <<"Snapshot for", channel, t \div TicksPerSecond>>
SeparatorOpen == <<"---">>
SeparatorClose == <<"-//-">>

\* time_delta is a whole number of seconds (the parser reads integers)
create_reminder(buf, cfg, trigger, secs, message, utcnow) ==
    LET channel == IF trigger.is_nick THEN PRIVMSG ELSE trigger.sender
        plain == ContextualReminder(trigger.time, trigger.time + Secs(secs),
                     trigger.nick, channel, message, EmptyStr, FALSE, << >>)
        snap == capture_context_snapshot(buf, channel)
    IN  IF InCaptureWindow(secs, cfg)
        THEN [raised |-> snap.raised,
              reminder |-> [plain EXCEPT
                  !.has_context = TRUE,
                  !.context_lines = <<SnapshotHeader(channel, utcnow),
                                      SeparatorOpen>>
                                    \o snap.lines \o <<SeparatorClose>>]]
        ELSE [raised |-> FALSE, reminder |-> plain]

(***************************************************************************)
(* Persistence.  isoformat(timespec="seconds") writes whole seconds;       *)
(* fromisoformat reads them back.                                          *)
(***************************************************************************)
IsoSeconds(t) == [iso_seconds |-> t \div TicksPerSecond]
FromIso(s) == s.iso_seconds * TicksPerSecond

serialize(r) ==
    [set_at |-> IsoSeconds(r.set_at), due_at |-> IsoSeconds(r.due_at),
     nickname |-> r.nickname, channel |-> r.channel, message |-> r.message,
     pastebin_url |-> r.pastebin_url, has_context |-> r.has_context,
     context_lines |-> r.context_lines]

\* the store by value: each entry's list holds the reminders themselves
StoreValue(store, hp) ==
    [k \in 1..Len(store) |->
        [channel |-> store[k].channel,
         list |-> [i \in 1..Len(store[k].list) |-> hp[store[k].list[i]]]]]

\* the document json.dump writes
save_reminders_to_persistence(store, hp, utcnow) ==
    [reminders |-> [k \in 1..Len(store) |->
                       [channel |-> store[k].channel,
                        list |-> [i \in 1..Len(store[k].list) |->
                                     serialize(hp[store[k].list[i]])]]],
     saved_at |-> utcnow,
     version |-> FILE_VERSION]

\* lines 131-152: what the file system holds after the try block and its
\* except clause, when the step named by fault raises OSError ("none": no
\* step does).  open creates the temporary file, json.dump fills it,
\* replace renames it over the persistence file; after an OSError the
\* temporary file is unlinked when it exists.
Faults == {"none", "open", "dump", "replace"}

Unlink(f) == << >>

\* the same written straight into the persistence file
SaveInPlace(file_before, output_data, fault) ==
    [file |-> IF fault = "none" THEN <<output_data>>
              ELSE IF fault = "open" THEN file_before
              ELSE <<[output_data EXCEPT !.reminders = << >>]>>,
     tmp_file |-> << >>,
     logged |-> IF fault = "none" THEN << >> ELSE <<"error">>]

SaveWithFault(file_before, output_data, fault) ==
    LET opened == IF fault = "open" THEN << >>
                  ELSE <<[output_data EXCEPT !.reminders = << >>]>>
        dumped == IF fault \in {"open", "dump"} THEN opened ELSE <<output_data>>
        replaced == fault = "none"
    IN  [file |-> IF replaced THEN dumped ELSE file_before,
         tmp_file |-> IF replaced THEN << >>
                      ELSE IF dumped # << >> THEN Unlink(dumped) ELSE dumped,
         logged |-> IF replaced THEN << >> ELSE <<"error">>]

LoadReminder(d) ==
    ContextualReminder(FromIso(d.set_at), FromIso(d.due_at), d.nickname,
        d.channel, d.message, d.pastebin_url, d.has_context, d.context_lines)

\* a key is created when the first reminder of a channel is read
load_reminders_from_persistence(f) ==
    IF f = << >> THEN << >>
    ELSE LET doc == f[1].reminders
             kept == SelectSeq(doc, LAMBDA e : Len(e.list) > 0)
         IN  [k \in 1..Len(kept) |->
                [channel |-> kept[k].channel,
                 list |-> [i \in 1..Len(kept[k].list) |->
                              LoadReminder(kept[k].list[i])]]]

\* what json.load cannot parse is held as a record with the field text
IsParseable(contents) == "text" \notin DOMAIN contents

RequiredFields ==
    {"set_at", "due_at", "nickname", "channel", "message", "pastebin_url",
     "has_context", "context_lines"}

\* data_reminder[field] raises KeyError for a field the record lacks
LacksField(contents) ==
    \E k \in 1..Len(contents.reminders) :
        \E i \in 1..Len(contents.reminders[k].list) :
            ~(RequiredFields \subseteq DOMAIN contents.reminders[k].list[i])

\* lines 54-100 with what they raise: json.load on an unparseable file, the
\* warning for a document without "reminders", the KeyError of a record that
\* lacks a field
LoadOutcome(f) ==
    IF f = << >>
    THEN [raised |-> "none", store |-> << >>, logged |-> << >>]
    ELSE IF ~IsParseable(f[1])
    THEN [raised |-> "JSONDecodeError", store |-> << >>, logged |-> << >>]
    ELSE IF "reminders" \notin DOMAIN f[1]
    THEN [raised |-> "none", store |-> << >>, logged |-> <<"warning">>]
    ELSE IF LacksField(f[1])
    THEN [raised |-> "KeyError", store |-> << >>, logged |-> << >>]
    ELSE [raised |-> "none", store |-> load_reminders_from_persistence(f),
          logged |-> << >>]

\* persist: append to the channel's list, creating it when absent
StoreAppend(store, channel, id) ==
    IF channel \in StoreKeys(store)
    THEN [store EXCEPT ![StoreIdx(store, channel)].list = Append(@, id)]
    ELSE Append(store, [channel |-> channel, list |-> <<id>>])

(***************************************************************************)
(* The delivery job.                                                       *)
(***************************************************************************)
\* a check that does not look at who is in the channel
CanDeliverToKnownChannel(chans, usrs, reminder) ==
    LET channel == reminder.channel IN
    IF PyHead(channel, 7) = PRIVMSG
    THEN LET user_hostmask == PyTail(channel, 8)
         IN  \E user_key \in DOMAIN usrs : user_hostmask = usrs[user_key]
    ELSE channel \in DOMAIN chans

can_deliver_reminder(chans, usrs, reminder) ==
    LET channel == reminder.channel IN
    IF PyHead(channel, 7) = PRIVMSG
    THEN LET user_hostmask == PyTail(channel, 8)
         IN  \E user_key \in DOMAIN usrs : user_hostmask = usrs[user_key]
    ELSE /\ channel \in DOMAIN chans
         /\ reminder.nickname \in chans[channel]

IsDueOrNow(reminder, as_at) == reminder.due_at <= as_at

\* line 144: reminder.due_at < reminders_as_at
IsDue(reminder, as_at) == reminder.due_at < as_at

\* list.remove(x): drops the first element equal to x
RECURSIVE FirstEqual(_, _, _, _)
FirstEqual(hp, lst, r, j) ==
    IF j > Len(lst) THEN 0
    ELSE IF ReminderEq(hp[lst[j]], r) THEN j
    ELSE FirstEqual(hp, lst, r, j + 1)

ListKeep(hp, lst, r) == lst

ListRemove(hp, lst, r) ==
    LET j == FirstEqual(hp, lst, r, 1)
    IN  IF j = 0 THEN lst
        ELSE SubSeq(lst, 1, j - 1) \o SubSeq(lst, j + 1, Len(lst))

\* `for reminder in channel_reminders`: the list iterator reads position i
\* of the list as it is now, and the body removes from that same list
RECURSIVE DeliverLoop(_, _, _, _, _, _, _)
DeliverLoop(hp, chans, usrs, as_at, lst, i, said) ==
    IF i > Len(lst) THEN [list |-> lst, said |-> said]
    ELSE LET reminder == hp[lst[i]] IN
         IF IsDue(reminder, as_at) /\ can_deliver_reminder(chans, usrs, reminder)
         THEN DeliverLoop(hp, chans, usrs, as_at,
                          ListRemove(hp, lst, reminder), i + 1,
                          Append(said, lst[i]))
         ELSE DeliverLoop(hp, chans, usrs, as_at, lst, i + 1, said)

RECURSIVE ConcatAll(_)
ConcatAll(ss) == IF ss = << >> THEN << >> ELSE Head(ss) \o ConcatAll(Tail(ss))

Count(seq, x) == Cardinality({i \in 1..Len(seq) : seq[i] = x})

get_formatted_reminder_message(reminder) ==
    IF reminder.has_context /\ Len(reminder.pastebin_url) > 0
    THEN <<reminder.message, "(More at", reminder.pastebin_url, ")">>
    ELSE <<reminder.message>>

(***************************************************************************)
(* The pastebin job.                                                       *)
(***************************************************************************)
\* the selection without the test of has_context
NeedsPasteWithoutContext(reminder, current_ts) ==
    /\ reminder.due_at - current_ts
         < Secs(UPCOMING_REMINDERS_WITH_CONTEXT_PASTEBIN_INTERVAL)
    /\ Len(reminder.pastebin_url) = 0

\* the selection with a horizon that includes its end
NeedsPasteUpToHorizon(reminder, current_ts) ==
    /\ reminder.due_at - current_ts
         <= Secs(UPCOMING_REMINDERS_WITH_CONTEXT_PASTEBIN_INTERVAL)
    /\ reminder.has_context
    /\ Len(reminder.pastebin_url) = 0

NeedsPaste(reminder, current_ts) ==
    /\ reminder.due_at - current_ts
         < Secs(UPCOMING_REMINDERS_WITH_CONTEXT_PASTEBIN_INTERVAL)
    /\ reminder.has_context
    /\ Len(reminder.pastebin_url) = 0

\* the dict channel -> list it returns, flattened in the order the loops of
\* create_pastebin_entries visit it
check_upcoming_reminders(store, hp, current_ts) ==
    ConcatAll([k \in 1..Len(store) |->
        LET sel == SelectSeq(store[k].list,
                             LAMBDA id : NeedsPaste(hp[id], current_ts))
        IN  [i \in 1..Len(sel) |-> [channel |-> store[k].channel, id |-> sel[i]]]])

\* the full_url of the n-th paste: never empty, never one given before
create_pastebin_url(n) == <<"u", n>>

\* the inner loop of update_reminders_pastebin_url for one stored reminder:
\* the first updated reminder of the same channel that equals it
\* a match by channel alone: the first updated reminder of the channel
FirstOfChannel(hp, updated, channel, id, j) ==
    IF \E n \in j..Len(updated) : updated[n].channel = channel
    THEN CHOOSE n \in j..Len(updated) :
             /\ updated[n].channel = channel
             /\ \A m \in j..(n - 1) : updated[m].channel # channel
    ELSE 0

RECURSIVE FirstMatch(_, _, _, _, _)
FirstMatch(hp, updated, channel, id, j) ==
    IF j > Len(updated) THEN 0
    ELSE IF updated[j].channel = channel /\ ReminderEq(hp[id], hp[updated[j].id])
    THEN j
    ELSE FirstMatch(hp, updated, channel, id, j + 1)

\* the outer loops, over the stored reminders in order, writing in place
RECURSIVE Reconcile(_, _, _, _)
Reconcile(hp, updated, stored, n) ==
    IF n > Len(stored) THEN hp
    ELSE LET j == FirstMatch(hp, updated, stored[n].channel, stored[n].id, 1)
             hp2 == IF j = 0 THEN hp
                    ELSE [hp EXCEPT ![stored[n].id].pastebin_url =
                                        hp[updated[j].id].pastebin_url]
         IN  Reconcile(hp2, updated, stored, n + 1)

StoreFlat(store) ==
    ConcatAll([k \in 1..Len(store) |->
        [i \in 1..Len(store[k].list) |->
            [channel |-> store[k].channel, id |-> store[k].list[i]]]])

\* a reconciliation that drops the snapshot of a reminder once it has a url
UpdateDroppingContext(hp, store, updated) ==
    IF Len(updated) = 0 THEN hp
    ELSE [id \in 1..Len(hp) |->
             IF Len(Reconcile(hp, updated, StoreFlat(store), 1)[id].pastebin_url) > 0
             THEN [Reconcile(hp, updated, StoreFlat(store), 1)[id]
                      EXCEPT !.context_lines = << >>]
             ELSE Reconcile(hp, updated, StoreFlat(store), 1)[id]]

update_reminders_pastebin_url(hp, store, updated) ==
    IF Len(updated) = 0 THEN hp ELSE Reconcile(hp, updated, StoreFlat(store), 1)

(***************************************************************************)
(* Initial state: setup() found no persistence file; the bot has not yet   *)
(* connected.                                                              *)
(***************************************************************************)
InitFiles(confs, inputs, files, setup_done) ==
    /\ now = StartTime
    /\ ticks = 0
    /\ conf \in confs
    /\ connected = FALSE
    /\ channels = << >>
    /\ users = << >>
    /\ heap = << >>
    /\ reminders = << >>
    /\ context_buffer = << >>
    /\ appended = << >>
    /\ file \in files
    /\ sched_pc = "idle"
    /\ reminders_as_at = 0
    /\ delivered = << >>
    /\ pub_pc = "idle"
    /\ upcoming = << >>
    /\ pub_i = 0
    /\ last_api_call_ts = 0
    /\ pub_next_ts = StartTime
    /\ n_pastes = 0
    /\ last_upload_start = -1
    /\ parse_input \in inputs
    /\ parse_output = << >>
    /\ raised = "none"
    /\ replies = << >>
    /\ log = << >>
    /\ tmp_file = << >>
    /\ started = setup_done
    /\ pending = << >>

\* setup() found no persistence file
InitAll(confs, inputs) == InitFiles(confs, inputs, {<< >>}, TRUE)

InitWith(confs) == InitAll(confs, {<< >>})

ioVars == <<parse_input, parse_output, raised, replies, log, tmp_file,
           started, pending>>
envVars == <<connected, channels, users>>
schedVars == <<sched_pc, reminders_as_at, delivered>>
pubVars == <<pub_pc, upcoming, pub_i, last_api_call_ts, pub_next_ts, n_pastes,
                   last_upload_start>>
bufVars == <<context_buffer, appended>>
storeVars == <<heap, reminders, file>>

(***************************************************************************)
(* The transport: what bot.backend.connected, bot.channels and bot.users   *)
(* can become between two steps of the plugin.                             *)
(***************************************************************************)
Connect ==
    /\ ~connected
    /\ connected' = TRUE
    /\ UNCHANGED <<ioVars, now, ticks, conf, channels, users, storeVars, bufVars,
                   schedVars, pubVars>>

Disconnect ==
    /\ connected
    /\ connected' = FALSE
    /\ UNCHANGED <<ioVars, now, ticks, conf, channels, users, storeVars, bufVars,
                   schedVars, pubVars>>

BotJoin(ch) ==
    /\ connected
    /\ ch \notin DOMAIN channels
    /\ channels' = [c \in DOMAIN channels \cup {ch} |->
                       IF c = ch THEN {} ELSE channels[c]]
    /\ UNCHANGED <<ioVars, now, ticks, conf, connected, users, storeVars, bufVars,
                   schedVars, pubVars>>

BotPart(ch) ==
    /\ ch \in DOMAIN channels
    /\ channels' = [c \in DOMAIN channels \ {ch} |-> channels[c]]
    /\ users' = [n \in {m \in DOMAIN users :
                          \E c \in DOMAIN channels \ {ch} : m \in channels[c]}
                    |-> users[n]]
    /\ UNCHANGED <<ioVars, now, ticks, conf, connected, storeVars, bufVars, schedVars,
                   pubVars>>

UserJoin(nick, ch) ==
    /\ connected
    /\ ch \in DOMAIN channels
    /\ nick \notin channels[ch]
    /\ channels' = [channels EXCEPT ![ch] = @ \cup {nick}]
    /\ users' = [n \in DOMAIN users \cup {nick} |-> Hostmask(n)]
    /\ UNCHANGED <<ioVars, now, ticks, conf, connected, storeVars, bufVars, schedVars,
                   pubVars>>

UserLeave(nick, ch) ==
    /\ ch \in DOMAIN channels
    /\ nick \in channels[ch]
    /\ channels' = [channels EXCEPT ![ch] = @ \ {nick}]
    /\ users' = [n \in {m \in DOMAIN users :
                          m # nick \/ \E c \in DOMAIN channels \ {ch} :
                                          m \in channels[c]}
                    |-> users[n]]
    /\ UNCHANGED <<ioVars, now, ticks, conf, connected, storeVars, bufVars, schedVars,
                   pubVars>>

(***************************************************************************)
(* The clock advances by one of the given steps.                           *)
(***************************************************************************)
Advance(steps) ==
    /\ ticks < MaxTicks
    /\ \E d \in steps : now' = now + d
    /\ ticks' = ticks + 1
    /\ UNCHANGED <<ioVars, conf, envVars, storeVars, bufVars, schedVars, pubVars>>

(***************************************************************************)
(* A line arrives: sent by nick to a channel, or to the bot in private.    *)
(***************************************************************************)
CanSend(is_nick, sender, nick) ==
    /\ connected
    /\ is_nick \/ (sender \in DOMAIN channels /\ nick \in channels[sender])

RECURSIVE SumLen(_, _)
SumLen(f, S) ==
    IF S = {} THEN 0
    ELSE LET c == CHOOSE x \in S : TRUE IN Len(f[c]) + SumLen(f, S \ {c})

NumAppended == SumLen(appended, DOMAIN appended)

\* plugin.py capture_message_in_buffer
capture_message_in_buffer(trigger, line) ==
    LET channel == get_channel_from_sender(trigger)
        old == IF channel \in DOMAIN appended THEN appended[channel] ELSE << >>
    IN  /\ context_buffer' = add_message_to_context_buffer(context_buffer,
                                 channel, line, conf.chat_lines)
        /\ appended' = [c \in DOMAIN appended \cup {channel} |->
                           IF c = channel THEN Append(old, line) ELSE appended[c]]
        /\ UNCHANGED <<ioVars, now, ticks, conf, envVars, storeVars, schedVars, pubVars>>

\* the objects of a loaded store, and the store holding them by identity
LoadedObjects(loaded) == ConcatAll([k \in 1..Len(loaded) |-> loaded[k].list])
LoadedStore(loaded) ==
    [k \in 1..Len(loaded) |->
        [channel |-> loaded[k].channel,
         list |-> [i \in 1..Len(loaded[k].list) |->
                      Len(ConcatAll([j \in 1..(k - 1) |-> loaded[j].list])) + i]]]

\* ctx_service.py setup: the namespace with an empty store, then the load.
\* An exception of the load leaves setup, and the plugin is not loaded.
setup ==
    /\ ~started
    /\ started' = TRUE
    /\ raised' = LoadOutcome(file).raised
    /\ log' = log \o LoadOutcome(file).logged
    /\ heap' = LoadedObjects(LoadOutcome(file).store)
    /\ reminders' = LoadedStore(LoadOutcome(file).store)
    /\ delivered' = [id \in 1..Len(heap') |-> 0]
    /\ UNCHANGED <<now, ticks, conf, envVars, file, bufVars, sched_pc,
                   reminders_as_at, pubVars, parse_input, parse_output,
                   replies, tmp_file, pending>>

PleaseSpecify == "Please specify when and what you would like to be reminded about"
SorryNotUnderstood == "Sorry, I didn't understand that"
IWillRemindYou == "I will remind you that"

\* the handler ends at an exception: raised and replies tell, nothing else
\* has changed
Raise(exception, replied) ==
    /\ raised' = exception
    /\ replies' = replied
    /\ UNCHANGED <<now, ticks, conf, envVars, storeVars, bufVars, schedVars,
                   pubVars, parse_input, parse_output, log, tmp_file,
                   started, pending>>

\* plugin.py reminder_in from line 104 on, once the arguments have parsed
\* to (time_delta, message), with the fault the save meets.  An exception
\* raised in create_reminder ends the handler; an OSError in the save is
\* caught there and logged.
reminder_in_saving(trigger, time_delta, message, fault) ==
    LET channel == get_channel_from_sender(trigger)
        made == create_reminder(context_buffer, conf, trigger, time_delta,
                                message, now)
        id == Len(heap) + 1
    IN  IF made.raised
        THEN Raise("KeyError", << >>)
        ELSE /\ heap' = Append(heap, made.reminder)
             /\ delivered' = Append(delivered, 0)
             /\ reminders' = StoreAppend(reminders, channel, id)
             /\ file' = SaveWithFault(file,
                            save_reminders_to_persistence(reminders', heap', now),
                            fault).file
             /\ tmp_file' = SaveWithFault(file,
                                save_reminders_to_persistence(reminders', heap', now),
                                fault).tmp_file
             /\ log' = log \o SaveWithFault(file,
                                  save_reminders_to_persistence(reminders', heap', now),
                                  fault).logged
             /\ raised' = "none"
             /\ replies' = <<IWillRemindYou>>
             /\ UNCHANGED <<now, ticks, conf, envVars, bufVars, sched_pc,
                            reminders_as_at, pubVars, parse_input,
                            parse_output, started, pending>>

\* the same when the file system does not fail
reminder_in_parsed(trigger, time_delta, message) ==
    reminder_in_saving(trigger, time_delta, message, "none")

\* plugin.py reminder_in; args is trigger.group(2), None when nothing
\* follows the command.
\*  - args None: the reply, then IN_RE.match(None) raises TypeError, which
\*    `except ValueError` does not catch;
\*  - no match: ValueError is caught and answered, then line 105 reads
\*    time_delta, which was never bound.
reminder_in(trigger, args) ==
    LET parsed == parse_reminder_string(args.str)
    IN  IF args.none
        THEN Raise("TypeError", <<PleaseSpecify>>)
        ELSE IF parsed.raised = "ValueError"
        THEN Raise("UnboundLocalError", <<SorryNotUnderstood>>)
        ELSE reminder_in_parsed(trigger, parsed.delta, parsed.message)

(***************************************************************************)
(* check_ctx_reminder_jobs.  The job reads the clock, then takes the lock   *)
(* and loops over the store.  The job scheduler may start it at any time.  *)
(***************************************************************************)
SchedStart ==
    /\ sched_pc = "idle"
    /\ IF ~connected \/ DOMAIN channels = {}
       THEN UNCHANGED <<sched_pc, reminders_as_at>>
       ELSE /\ reminders_as_at' = now
            /\ sched_pc' = "locked"
    /\ UNCHANGED <<ioVars, now, ticks, conf, envVars, storeVars, bufVars, delivered,
                   pubVars>>

SchedRun ==
    /\ sched_pc = "locked"
    /\ LET res == [k \in 1..Len(reminders) |->
                      DeliverLoop(heap, channels, users, reminders_as_at,
                                  reminders[k].list, 1, << >>)]
           said == ConcatAll([k \in 1..Len(reminders) |-> res[k].said])
           is_dirty == Len(said) > 0
       IN  /\ reminders' = [k \in 1..Len(reminders) |->
                               [reminders[k] EXCEPT !.list = res[k].list]]
           /\ delivered' = [id \in 1..Len(delivered) |->
                               delivered[id] + Count(said, id)]
           /\ file' = IF is_dirty
                      THEN <<save_reminders_to_persistence(reminders', heap, now)>>
                      ELSE file
    /\ sched_pc' = "idle"
    /\ reminders_as_at' = 0
    /\ UNCHANGED <<ioVars, now, ticks, conf, envVars, heap, bufVars, pubVars>>

(***************************************************************************)
(* interval_check_upcoming_reminders.  The job scheduler starts a run no   *)
(* sooner than the interval after the previous start, and never while one  *)
(* is in progress.  The selection and the reconciliation hold the lock;    *)
(* create_pastebin_entries runs without it, one upload at a time.          *)
(***************************************************************************)
interval_check_upcoming_reminders(interval) ==
    /\ pub_pc = "idle"
    /\ now >= pub_next_ts
    /\ pub_next_ts' = IF interval = 0 THEN pub_next_ts ELSE now + Secs(interval)
    /\ IF ~connected \/ DOMAIN channels = {}
       THEN UNCHANGED <<pub_pc, upcoming, pub_i, last_api_call_ts>>
       ELSE LET sel == check_upcoming_reminders(reminders, heap, now)
            IN  /\ upcoming' = sel
                /\ last_api_call_ts' = 0
                /\ IF Len(sel) = 0
                   THEN pub_pc' = "idle" /\ pub_i' = 0
                   ELSE pub_pc' = "limit" /\ pub_i' = 1
    /\ UNCHANGED <<ioVars, now, ticks, conf, envVars, storeVars, bufVars, schedVars,
                   n_pastes,
                   last_upload_start>>

\* after the body of the loop for upcoming[pub_i]
PubAdvance ==
    IF pub_i = Len(upcoming)
    THEN pub_pc' = "reconcile" /\ pub_i' = 0
    ELSE pub_pc' = "limit" /\ pub_i' = pub_i + 1

\* lines 422-438: skip a reminder that has a url, else wait until
\* PASTEBIN_API_DELAY has passed since the last call returned
PubRateLimit ==
    /\ pub_pc = "limit"
    /\ IF Len(heap[upcoming[pub_i].id].pastebin_url) = 0
       THEN LET last_api_call_delta_ts == now - last_api_call_ts
            IN  /\ now' = IF Secs(PASTEBIN_API_DELAY) > last_api_call_delta_ts
                          THEN now + (Secs(PASTEBIN_API_DELAY)
                                      - last_api_call_delta_ts)
                          ELSE now
                /\ pub_pc' = "call"
                /\ pub_i' = pub_i
       ELSE /\ PubAdvance
            /\ now' = now
    /\ UNCHANGED <<ioVars, ticks, conf, envVars, storeVars, bufVars, schedVars,
                   upcoming, last_api_call_ts, pub_next_ts, n_pastes,
                   last_upload_start>>

\* lines 440-444: the call, which returns a new url or fails; a failure
\* raises ValueError out of the job
PubCall ==
    /\ pub_pc = "call"
    /\ last_upload_start' = now
    /\ \E ok \in BOOLEAN :
        IF ok
        THEN /\ n_pastes' = n_pastes + 1
             /\ heap' = [heap EXCEPT ![upcoming[pub_i].id].pastebin_url =
                                         create_pastebin_url(n_pastes')]
             /\ last_api_call_ts' = now
             /\ PubAdvance
             /\ UNCHANGED upcoming
        ELSE /\ pub_pc' = "idle"
             /\ pub_i' = 0
             /\ upcoming' = << >>
             /\ last_api_call_ts' = 0
             /\ UNCHANGED <<heap, n_pastes>>
    /\ UNCHANGED <<ioVars, now, ticks, conf, envVars, reminders, file, bufVars,
                   schedVars, pub_next_ts>>

PubReconcile ==
    /\ pub_pc = "reconcile"
    /\ heap' = update_reminders_pastebin_url(heap, reminders, upcoming)
    /\ file' = <<save_reminders_to_persistence(reminders, heap', now)>>
    /\ pub_pc' = "idle"
    /\ upcoming' = << >>
    /\ last_api_call_ts' = 0
    /\ UNCHANGED <<ioVars, now, ticks, conf, envVars, reminders, bufVars, schedVars,
                   pub_i, pub_next_ts, n_pastes, last_upload_start>>

(***************************************************************************)
(* Specifications.                                                         *)
(***************************************************************************)
MainSecs == {0, 1}
MainLines == {"x"}
MainConf == [min |-> Num(1), max |-> Inf, chat_lines |-> 1]
MaxMainAppends == 1

Init == InitWith({MainConf})

\* <<is_nick, sender, nick>>: in private the sender is the nickname itself
Senders == {<<TRUE, <<n>>, n>> : n \in Nicks}
           \cup {<<FALSE, c, n>> : c \in Channels, n \in Nicks}

Capture ==
    \E s \in Senders, line \in MainLines :
        /\ CanSend(s[1], s[2], s[3])
        /\ NumAppended < MaxMainAppends
        /\ capture_message_in_buffer(Trigger(s[1], s[2], s[3], now), line)

Create ==
    \E s \in Senders, secs \in MainSecs, message \in Messages :
        /\ CanSend(s[1], s[2], s[3])
        /\ Len(heap) < MaxRem
        /\ reminder_in_parsed(Trigger(s[1], s[2], s[3], now), secs, message)

Tick == Advance({1})
PubStart == interval_check_upcoming_reminders(0)

Join == \E ch \in Channels : BotJoin(ch)
Part == \E ch \in Channels : BotPart(ch)
Arrive == \E n \in Nicks, ch \in Channels : UserJoin(n, ch)
Leave == \E n \in Nicks, ch \in Channels : UserLeave(n, ch)

Next ==
    \/ Connect
    \/ Disconnect
    \/ Join
    \/ Part
    \/ Arrive
    \/ Leave
    \/ Tick
    \/ Capture
    \/ Create
    \/ SchedStart
    \/ SchedRun
    \/ PubStart
    \/ PubRateLimit
    \/ PubCall
    \/ PubReconcile

Spec == Init /\ [][Next]_vars

\* The job scheduler runs the delivery job again and again: a run that can
\* start does start, and a started run takes the lock and completes.
FairSpec == Spec /\ WF_vars(SchedStart) /\ WF_vars(SchedRun)

(***************************************************************************)
(* The same program with the pastebin job started no sooner than its       *)
(* interval after its previous start, and a clock that can also advance by *)
(* that interval.                                                          *)
(***************************************************************************)
TickInterval ==
    Advance({1, Secs(CHECK_UPCOMING_REMINDERS_WITH_CONTEXT_INTERVAL)})
PubStartInterval ==
    interval_check_upcoming_reminders(
        CHECK_UPCOMING_REMINDERS_WITH_CONTEXT_INTERVAL)

NextInterval ==
    \/ Connect
    \/ Disconnect
    \/ Join
    \/ Part
    \/ Arrive
    \/ Leave
    \/ TickInterval
    \/ Capture
    \/ Create
    \/ SchedStart
    \/ SchedRun
    \/ PubStartInterval
    \/ PubRateLimit
    \/ PubCall
    \/ PubReconcile

SpecInterval == Init /\ [][NextInterval]_vars

(***************************************************************************)
(* The context buffer alone: any configured capacity, lines a to d.        *)
(***************************************************************************)
BufferLines == {"a", "b", "c", "d"}
InitBuffer == InitWith({[MainConf EXCEPT !.chat_lines = c] : c \in 0..MaxCap})

CaptureAny ==
    \E s \in Senders, line \in BufferLines :
        /\ CanSend(s[1], s[2], s[3])
        /\ NumAppended < MaxAppends
        /\ capture_message_in_buffer(Trigger(s[1], s[2], s[3], now), line)

NextBuffer ==
    \/ Connect
    \/ Join
    \/ Arrive
    \/ CaptureAny

SpecBuffer == InitBuffer /\ [][NextBuffer]_vars

(***************************************************************************)
(* Reminder creation alone: any capture window, durations 0..MaxSecs.      *)
(***************************************************************************)
WindowMins == {None} \cup {Num(n) : n \in 0..2}
WindowMaxs == {None, Inf} \cup {Num(n) : n \in 1..2}
InitCreate ==
    InitWith({[MainConf EXCEPT !.min = lo, !.max = hi] :
                 lo \in WindowMins, hi \in WindowMaxs})

CreateAny ==
    \E s \in Senders, secs \in 0..MaxSecs, message \in Messages :
        /\ CanSend(s[1], s[2], s[3])
        /\ Len(heap) < MaxRem
        /\ reminder_in_parsed(Trigger(s[1], s[2], s[3], now), secs, message)

NextCreate ==
    \/ Connect
    \/ Join
    \/ Arrive
    \/ Tick
    \/ Capture
    \/ CreateAny

SpecCreate == InitCreate /\ [][NextCreate]_vars

(***************************************************************************)
(* The parser alone: every string of up to MaxWordLen characters that      *)
(* starts with a digit, the short strings that do not, and the strings of  *)
(* the documentation.                                                      *)
(***************************************************************************)
Alphabet == {"1", "d", "h", "m", "s", " ", "x"}
StringsUpTo(n) == UNION {[1..k -> Alphabet] : k \in 0..n}

TwoHoursThirtyExtraText ==
    <<"2", "h", " ", "3", "0", "m", " ",
      "e", "x", "t", "r", "a", " ", "t", "e", "x", "t">>
TomorrowDoTheThing ==
    <<"t", "o", "m", "o", "r", "r", "o", "w", " ", "d", "o", " ",
      "t", "h", "e", " ", "t", "h", "i", "n", "g">>
TwoHoursThirty == <<"2", "h", " ", "3", "0", "m">>
OneDayTwoHoursThreeMinutesFourSeconds ==
    <<"1", "d", " ", "2", "h", "3", "m", " ", "4", "s", " ", " ", "a", " ", "b">>

WordLines ==
    {<<"1">> \o t : t \in StringsUpTo(MaxWordLen - 1)}
    \cup StringsUpTo(2)
    \cup {TwoHoursThirtyExtraText, TomorrowDoTheThing, TwoHoursThirty,
          OneDayTwoHoursThreeMinutesFourSeconds}

InitParse == InitAll({MainConf}, WordLines)

Parse ==
    /\ parse_output = << >>
    /\ parse_output' = <<parse_reminder_string(parse_input)>>
    /\ UNCHANGED <<now, ticks, conf, envVars, storeVars, bufVars, schedVars,
                   pubVars, parse_input, raised, replies, log, tmp_file,
                   started, pending>>

NextParse ==
    \/ Parse

SpecParse == InitParse /\ [][NextParse]_vars

(***************************************************************************)
(* The command with its arguments as received: none, malformed ones and    *)
(* well-formed ones.                                                       *)
(***************************************************************************)
OneSecond == <<"1", "s">>
CommandArgs ==
    {NoGroup, Group(TomorrowDoTheThing), Group(OneSecond),
     Group(TwoHoursThirtyExtraText)}
    \cup {ArgsOf(secs, message) : secs \in MainSecs, message \in Messages}

Command ==
    \E s \in Senders, args \in CommandArgs :
        /\ CanSend(s[1], s[2], s[3])
        /\ Len(heap) < MaxRem
        /\ reminder_in(Trigger(s[1], s[2], s[3], now), args)

NextCommand ==
    \/ Connect
    \/ Join
    \/ Arrive
    \/ Tick
    \/ Capture
    \/ Command

SpecCommand == Init /\ [][NextCommand]_vars

(***************************************************************************)
(* The whole program with lines a, b, a, ... arriving before and after a   *)
(* reminder is made, so that its conversation's buffer grows and evicts.   *)
(***************************************************************************)
AlternatingLines == <<"a", "b">>
MaxSnapshotAppends == 2

CaptureAlternating ==
    \E s \in Senders :
        /\ CanSend(s[1], s[2], s[3])
        /\ NumAppended < MaxSnapshotAppends
        /\ capture_message_in_buffer(Trigger(s[1], s[2], s[3], now),
               AlternatingLines[(NumAppended % 2) + 1])

NextSnapshot ==
    \/ Connect
    \/ Join
    \/ Arrive
    \/ Tick
    \/ CaptureAlternating
    \/ Create
    \/ SchedStart
    \/ SchedRun
    \/ PubStart
    \/ PubRateLimit
    \/ PubCall
    \/ PubReconcile

SpecSnapshot == Init /\ [][NextSnapshot]_vars

(***************************************************************************)
(* Reminder creation with a file system that can fail the save at any of   *)
(* its steps.                                                              *)
(***************************************************************************)
CreateSaving ==
    \E s \in Senders, secs \in MainSecs, message \in Messages, fault \in Faults :
        /\ CanSend(s[1], s[2], s[3])
        /\ Len(heap) < MaxRem
        /\ reminder_in_saving(Trigger(s[1], s[2], s[3], now), secs, message,
                              fault)

NextSave ==
    \/ Connect
    \/ Join
    \/ Arrive
    \/ Tick
    \/ Capture
    \/ CreateSaving

SpecSave == Init /\ [][NextSave]_vars

(***************************************************************************)
(* Startup: setup over the files it can find, then the running plugin.     *)
(***************************************************************************)
FileReminders ==
    {ContextualReminder(StartTime - Secs(s), StartTime + Secs(d), n, ChanC, m,
                        EmptyStr, h, IF h THEN <<SeparatorOpen>> ELSE << >>) :
        s \in {0, 1}, d \in {0, 1}, n \in Nicks, m \in Messages, h \in BOOLEAN}

DocumentOf(entries) ==
    [reminders |-> <<[channel |-> ChanC, list |-> entries]>>,
     saved_at |-> StartTime, version |-> FILE_VERSION]

Without(d, field) == [x \in DOMAIN d \ {field} |-> d[x]]

GoodFiles == {<<DocumentOf(<<serialize(r)>>)>> : r \in FileReminders}
FilesLackingField ==
    {<<DocumentOf(<<Without(serialize(r), field)>>)>> :
        r \in FileReminders, field \in RequiredFields}
FilesWithoutReminders ==
    {<<Without(f[1], "reminders")>> : f \in GoodFiles}
UnparseableFile == <<[text |-> "{"]>>

LoadFiles ==
    {<< >>, UnparseableFile} \cup GoodFiles \cup FilesLackingField
    \cup FilesWithoutReminders

InitLoad == InitFiles({MainConf}, {<< >>}, LoadFiles, FALSE)

PluginLoaded == started /\ raised = "none"

Run ==
    /\ PluginLoaded
    /\ \/ Connect
       \/ Join
       \/ Arrive
       \/ Tick
       \/ SchedStart
       \/ SchedRun

NextLoad ==
    \/ setup
    \/ Run

SpecLoad == InitLoad /\ [][NextLoad]_vars

(***************************************************************************)
(* The publisher over a store loaded from a file with reminders of two     *)
(* conversations, due one second before the horizon and at it, and        *)
(* reminders created without context or due at the horizon.                *)
(***************************************************************************)
ChanD == <<"#", "d">>
HorizonSecs ==
    {UPCOMING_REMINDERS_WITH_CONTEXT_PASTEBIN_INTERVAL - 1,
     UPCOMING_REMINDERS_WITH_CONTEXT_PASTEBIN_INTERVAL}
CreatedSecs == {0, UPCOMING_REMINDERS_WITH_CONTEXT_PASTEBIN_INTERVAL}

FiledReminder(channel, secs) ==
    ContextualReminder(StartTime, StartTime + Secs(secs), "a", channel,
                       <<"m">>, EmptyStr, TRUE,
                       <<SnapshotHeader(channel, StartTime), SeparatorOpen,
                         SeparatorClose>>)

PublishFiles ==
    {<< >>}
    \cup {<<[reminders |->
               <<[channel |-> ChanD, list |-> <<serialize(FiledReminder(ChanD, d))>>],
                 [channel |-> ChanC, list |-> <<serialize(FiledReminder(ChanC, c))>>]>>,
             saved_at |-> StartTime, version |-> FILE_VERSION]>> :
            d \in {UPCOMING_REMINDERS_WITH_CONTEXT_PASTEBIN_INTERVAL - 1},
            c \in HorizonSecs}

InitPublish == InitFiles({MainConf}, {<< >>}, PublishFiles, FALSE)

CreateHorizon ==
    \E s \in Senders, secs \in CreatedSecs, message \in Messages :
        /\ CanSend(s[1], s[2], s[3])
        /\ Len(heap) < MaxRem
        /\ reminder_in_parsed(Trigger(s[1], s[2], s[3], now), secs, message)

RunPublish ==
    /\ PluginLoaded
    /\ \/ Connect
       \/ Join
       \/ Arrive
       \/ TickInterval
       \/ Capture
       \/ CreateHorizon
       \/ SchedStart
       \/ SchedRun
       \/ PubStartInterval
       \/ PubRateLimit
       \/ PubCall
       \/ PubReconcile

NextPublish ==
    \/ setup
    \/ RunPublish

SpecPublish == InitPublish /\ [][NextPublish]_vars

(***************************************************************************)
(* The jobs and the command on a transport that stays up: the pastebin job *)
(* at its interval, deliveries and creations between its steps.            *)
(***************************************************************************)
NextReconcile ==
    \/ Connect
    \/ Join
    \/ Arrive
    \/ TickInterval
    \/ Capture
    \/ Create
    \/ SchedStart
    \/ SchedRun
    \/ PubStartInterval
    \/ PubRateLimit
    \/ PubCall
    \/ PubReconcile

SpecReconcile == Init /\ [][NextReconcile]_vars

(***************************************************************************)
(* The capture handler and the command in two threads.  The capture takes  *)
(* the lock, appends, and evicts when the list is over capacity; a list    *)
(* over capacity is the capture between the two, holding the lock.  The    *)
(* command creates its reminder, reading the buffer, before it takes the   *)
(* lock to persist it.                                                     *)
(***************************************************************************)
\* ctx_service.py:288-294, under the lock of plugin.py:84
capture_append ==
    \E s \in Senders :
        LET channel == get_channel_from_sender(Trigger(s[1], s[2], s[3], now))
            line == AlternatingLines[(NumAppended % 2) + 1]
            lines == IF channel \in DOMAIN context_buffer
                     THEN context_buffer[channel] ELSE << >>
            old == IF channel \in DOMAIN appended THEN appended[channel]
                   ELSE << >>
        IN  /\ CanSend(s[1], s[2], s[3])
            /\ NumAppended < MaxSnapshotAppends
            /\ \A c \in DOMAIN context_buffer :
                   Len(context_buffer[c]) <= conf.chat_lines
            /\ context_buffer' =
                   [c \in DOMAIN context_buffer \cup {channel} |->
                       IF c = channel THEN Append(lines, line)
                       ELSE context_buffer[c]]
            /\ appended' =
                   [c \in DOMAIN appended \cup {channel} |->
                       IF c = channel THEN Append(old, line) ELSE appended[c]]
            /\ UNCHANGED <<ioVars, now, ticks, conf, envVars, storeVars,
                           schedVars, pubVars>>

\* ctx_service.py:296-298, then the lock is released
capture_evict ==
    \E c \in DOMAIN context_buffer :
        /\ Len(context_buffer[c]) > conf.chat_lines
        /\ context_buffer' = [context_buffer EXCEPT ![c] = Tail(@)]
        /\ UNCHANGED <<ioVars, now, ticks, conf, envVars, storeVars, appended,
                       schedVars, pubVars>>

\* plugin.py:104-105, without the lock
create_unlocked ==
    \E s \in Senders, secs \in MainSecs, message \in Messages :
        LET trigger == Trigger(s[1], s[2], s[3], now)
            made == create_reminder(context_buffer, conf, trigger, secs,
                                    message, now)
        IN  /\ CanSend(s[1], s[2], s[3])
            /\ Len(heap) < MaxRem
            /\ pending = << >>
            /\ IF made.raised
               THEN Raise("KeyError", << >>)
               ELSE /\ heap' = Append(heap, made.reminder)
                    /\ delivered' = Append(delivered, 0)
                    /\ pending' = <<[channel |-> get_channel_from_sender(trigger),
                                     id |-> Len(heap) + 1]>>
                    /\ UNCHANGED <<now, ticks, conf, envVars, reminders, file,
                                   bufVars, sched_pc, reminders_as_at, pubVars,
                                   parse_input, parse_output, raised, replies,
                                   log, tmp_file, started>>

\* plugin.py:107-123, once the lock is free
persist_locked ==
    /\ pending # << >>
    /\ \A c \in DOMAIN context_buffer : Len(context_buffer[c]) <= conf.chat_lines
    /\ reminders' = StoreAppend(reminders, pending[1].channel, pending[1].id)
    /\ file' = <<save_reminders_to_persistence(reminders', heap, now)>>
    /\ pending' = << >>
    /\ raised' = "none"
    /\ replies' = <<IWillRemindYou>>
    /\ UNCHANGED <<now, ticks, conf, envVars, heap, bufVars, schedVars, pubVars,
                   parse_input, parse_output, log, tmp_file, started>>

NextRace ==
    \/ Connect
    \/ Join
    \/ Arrive
    \/ capture_append
    \/ capture_evict
    \/ create_unlocked
    \/ persist_locked

SpecRace == InitBuffer /\ [][NextRace]_vars

(***************************************************************************)
(* Properties.                                                             *)
(***************************************************************************)
Stored == StoreIds(reminders)
Objects == 1..Len(heap)

\* C1: the delivery job says or removes a reminder only in a run whose
\* reminders_as_at is strictly after the reminder's due_at; a reminder due at
\* or after the time of the run stays in the store unsaid, and no other step
\* of the plugin says or removes anything.
NeverDeliveredEarly ==
    [][\A id \in Objects :
          (delivered'[id] > delivered[id] \/ (id \in Stored /\ id \notin Stored'))
          => (sched_pc = "locked" /\ heap[id].due_at < reminders_as_at)]_vars

\* a reminder was said, and one that was in the store during that run, with
\* its recipient present, is still there because it was not yet due
NotYetDueKept ==
    \E id1 \in Objects, id2 \in Stored :
        /\ delivered[id1] = 1
        /\ heap[id2].set_at <= heap[id1].due_at
        /\ heap[id2].due_at >= now
        /\ can_deliver_reminder(channels, users, heap[id2])

\* C2: reminders have no identity but their value, so they are counted by
\* the value they were created with: for every such value, the number of
\* times it was said plus the number of reminders still stored with it is the
\* number created with it.  No reminder is said twice, none is dropped unsaid.
CreatedAs(r) == [r EXCEPT !.pastebin_url = EmptyStr]
SameAs(id) == {j \in Objects : CreatedAs(heap[j]) = CreatedAs(heap[id])}

RECURSIVE SumOver(_, _)
SumOver(f, S) ==
    IF S = {} THEN 0
    ELSE LET x == CHOOSE y \in S : TRUE IN f[x] + SumOver(f, S \ {x})

DeliveredOnce ==
    \A id \in Objects :
        SumOver(delivered, SameAs(id)) + Cardinality(SameAs(id) \cap Stored)
            = Cardinality(SameAs(id))

\* two value-equal reminders were stored together and each has been said once
TwinsEachSaidOnce ==
    \E id1, id2 \in Objects :
        /\ id1 # id2
        /\ heap[id1] = heap[id2]
        /\ delivered[id1] = 1 /\ delivered[id2] = 1
        /\ Stored = {}

\* the connection identity a stored private reminder was bound to: the part
\* of its store key after "PRIVMSG-"
BoundHostmask(key) == PyTail(key, 8)
IsPrivateKey(key) == PyHead(key, 7) = PRIVMSG

\* the recipient of the reminder stored under key is reachable: in private,
\* some known user has the bound hostmask; in a channel, the nickname is in it
Reachable(key, r) ==
    IF IsPrivateKey(key)
    THEN \E n \in DOMAIN users : users[n] = BoundHostmask(key)
    ELSE key \in DOMAIN channels /\ r.nickname \in channels[key]

KeyOf(id) == reminders[CHOOSE k \in 1..Len(reminders) :
                          \E i \in 1..Len(reminders[k].list) :
                              reminders[k].list[i] = id].channel

\* C4: a run of the delivery job, started with the transport connected,
\* leaves in the store no reminder that was due at the time of the run and
\* deliverable.
RunDeliversAllDue ==
    [][(sched_pc = "locked" /\ sched_pc' = "idle" /\ connected)
        => \A id \in Stored' :
              ~(/\ heap[id].due_at < reminders_as_at
                /\ can_deliver_reminder(channels, users, heap[id]))]_vars

\* C5: a due stored reminder created in a private conversation is
\* deliverable whenever a known user has the hostmask it was bound to at
\* creation.
PrivateDeliverableWhenReachable ==
    \A id \in Stored :
        (/\ IsPrivateKey(KeyOf(id))
         /\ heap[id].due_at < now
         /\ Reachable(KeyOf(id), heap[id]))
        => can_deliver_reminder(channels, users, heap[id])

\* C7: once a reminder's pastebin_url is not empty, no step changes it.
PasteUrlSetOnce ==
    [][\A id \in Objects :
          heap[id].pastebin_url # EmptyStr
          => heap'[id].pastebin_url = heap[id].pastebin_url]_vars

\* a publisher run has uploaded, reconciled and flushed: a stored reminder
\* carries its url, in memory and in the file
PasteUrlPublished ==
    /\ pub_pc = "idle"
    /\ file # << >>
    /\ \E id \in Stored :
        /\ heap[id].pastebin_url # EmptyStr
        /\ \E k \in 1..Len(file[1].reminders) :
             \E i \in 1..Len(file[1].reminders[k].list) :
                file[1].reminders[k].list[i].pastebin_url = heap[id].pastebin_url

\* C8: saving the store and loading the file gives back the store, by value.
RoundTrip ==
    load_reminders_from_persistence(
        <<save_reminders_to_persistence(reminders, heap, now)>>)
    = StoreValue(reminders, heap)

\* C3: a stored reminder that is due and whose recipient is reachable is in
\* the end said and removed, unless the recipient stops being reachable or
\* the transport stops being connected.
DueAndReachable(id) ==
    /\ id \in Stored
    /\ heap[id].due_at < now
    /\ Reachable(KeyOf(id), heap[id])
    /\ connected /\ DOMAIN channels # {}

EventuallyDelivered ==
    \A id \in 1..MaxRem :
        DueAndReachable(id) ~> (id \notin Stored \/ ~DueAndReachable(id))

\* the same for the reminders of shared channels only
EventuallyDeliveredInChannel ==
    \A id \in 1..MaxRem :
        (DueAndReachable(id) /\ ~IsPrivateKey(KeyOf(id)))
            ~> (id \notin Stored \/ ~DueAndReachable(id))

\* C6: whenever an upload call starts, the previous upload call started at
\* least PASTEBIN_API_DELAY seconds before.
UploadsSpaced ==
    [][(last_upload_start' # last_upload_start /\ last_upload_start # -1)
        => last_upload_start' - last_upload_start >= Secs(PASTEBIN_API_DELAY)]_vars

\* C9: each conversation's buffer holds at most the configured number of
\* lines, and they are the lines appended last to it, in the order appended.
LastLines(seq, n) == SubSeq(seq, Len(seq) - Min(n, Len(seq)) + 1, Len(seq))

BufferKeepsNewest ==
    /\ DOMAIN context_buffer = DOMAIN appended
    /\ \A ch \in DOMAIN context_buffer :
        /\ Len(context_buffer[ch]) <= conf.chat_lines
        /\ context_buffer[ch] = LastLines(appended[ch], conf.chat_lines)

\* capacity 3 and appends a, b, c, d leave b, c, d
BufferExample ==
    /\ conf.chat_lines = 3
    /\ ChanC \in DOMAIN appended
    /\ appended[ChanC] = <<"a", "b", "c", "d">>
    /\ context_buffer[ChanC] = <<"b", "c", "d">>

\* C10: a reminder has context, and context lines, exactly when the seconds
\* between its set_at and its due_at lie in the closed configured interval.
AskedSecs(r) == (r.due_at - r.set_at) \div TicksPerSecond
WindowLow == IF conf.min.k = "none" THEN 0 ELSE conf.min.v
WindowHigh == IF conf.max.k = "none" THEN 0 ELSE conf.max.v
InWindow(n) ==
    /\ conf.min.k # "inf" /\ WindowLow <= n
    /\ conf.max.k = "inf" \/ n <= WindowHigh

UnitRank(c) ==
    CASE c = "d" -> 4 [] c = "h" -> 3 [] c = "m" -> 2 [] c = "s" -> 1
      [] OTHER -> 0
UnitSeconds(c) ==
    CASE c = "d" -> 86400 [] c = "h" -> 3600 [] c = "m" -> 60 [] OTHER -> 1

RECURSIVE ReadFields(_, _, _)
ReadFields(t, i, first) ==
    IF i > Len(t) THEN [ok |-> ~first, fields |-> << >>]
    ELSE LET start == IF ~first /\ IsSpace(t[i]) THEN i + 1 ELSE i
             d == DigitsEnd(t, start)
         IN  IF d > start /\ d <= Len(t) /\ UnitRank(t[d]) > 0
             THEN LET r == ReadFields(t, d + 1, FALSE)
                  IN  [ok |-> r.ok,
                       fields |-> <<[n |-> PyInt(SubSeq(t, start, d - 1)),
                                     unit |-> t[d]]>> \o r.fields]
             ELSE [ok |-> FALSE, fields |-> << >>]

IsDurationExpression(t) ==
    LET r == ReadFields(t, 1, TRUE)
    IN  /\ r.ok
        /\ \A k \in 1..(Len(r.fields) - 1) :
               UnitRank(r.fields[k].unit) > UnitRank(r.fields[k + 1].unit)

RECURSIVE SumFields(_)
SumFields(fields) ==
    IF fields = << >> THEN 0
    ELSE Head(fields).n * UnitSeconds(Head(fields).unit) + SumFields(Tail(fields))

DurationSeconds(t) == SumFields(ReadFields(t, 1, TRUE).fields)

\* where a leading duration expression can end: before a blank or at the end
LeadingEnds(s) ==
    {e \in 1..Len(s) : /\ IsDurationExpression(SubSeq(s, 1, e))
                       /\ e = Len(s) \/ IsSpace(s[e + 1])}
LeadingEnd(s) == CHOOSE e \in LeadingEnds(s) : \A f \in LeadingEnds(s) : f <= e
\* valid: the longest leading duration expression, blanks, then a message
ValidInput(s) ==
    /\ LeadingEnds(s) # {}
    /\ SpacesEnd(s, LeadingEnd(s) + 1) <= Len(s)

\* C13: for a valid input the parser returns the sum of the fields of the
\* leading duration expression, omitted fields counting zero, and as message
\* the rest of the string from its first non-blank character.
ParsesValidInput ==
    (parse_output # << >> /\ ValidInput(parse_input)) =>
        LET e == LeadingEnd(parse_input)
        IN  parse_output[1] =
                [raised |-> "none",
                 delta |-> DurationSeconds(SubSeq(parse_input, 1, e)),
                 message |-> SubSeq(parse_input, SpacesEnd(parse_input, e + 1),
                                    Len(parse_input))]

\* "2h 30m extra text" gives 2 hours 30 minutes 0 seconds and "extra text"
ParsedTwoHoursThirty ==
    /\ parse_input = TwoHoursThirtyExtraText
    /\ parse_output = <<[raised |-> "none", delta |-> 2 * 3600 + 30 * 60 + 0,
                         message |-> <<"e", "x", "t", "r", "a", " ",
                                       "t", "e", "x", "t">>]>>

\* C14: parsing fails, with no result, for every input whose leading token
\* is no duration of any tier and for every input that is a duration
\* expression with no message after it.
LeadingTokenNoTier(s) ==
    \A e \in 1..Len(s) : ~IsDurationExpression(SubSeq(s, 1, e))

RejectsMalformed ==
    (/\ parse_output # << >>
     /\ \/ LeadingTokenNoTier(parse_input)
        \/ IsDurationExpression(parse_input)) =>
        parse_output[1] = [raised |-> "ValueError", delta |-> 0, message |-> << >>]

\* C11: a creation inside the capture window does not fail on the buffer,
\* and the context lines of the reminder it stores are a header, a
\* separator, the lines the buffer holds for that conversation (none when
\* it holds nothing for it) and a closing separator.
BufferOf(key) ==
    IF key \in DOMAIN context_buffer THEN context_buffer[key] ELSE << >>
StoredUnder(store, id) ==
    store[CHOOSE k \in 1..Len(store) :
              \E i \in 1..Len(store[k].list) : store[k].list[i] = id].channel

ContextIsBufferSnapshot ==
    [][/\ raised' # "KeyError"
       /\ (Len(heap') > Len(heap) /\ heap'[Len(heap')].has_context) =>
            LET lines == heap'[Len(heap')].context_lines
            IN  /\ Len(lines) >= 3
                /\ lines[2] = SeparatorOpen
                /\ lines[Len(lines)] = SeparatorClose
                /\ SubSeq(lines, 3, Len(lines) - 1)
                       = BufferOf(StoredUnder(reminders', Len(heap')))]_vars

\* C15: a command answered as missing or malformed input ends without an
\* exception and leaves the store, the reminders, the context buffer and
\* the persistence file as they were.
MalformedInputOnlyReported ==
    [][(replies' # replies
        /\ replies' \in {<<PleaseSpecify>>, <<SorryNotUnderstood>>}) =>
            /\ raised' = "none"
            /\ UNCHANGED <<heap, reminders, context_buffer, file>>]_vars

\* C12: once a reminder exists its has_context and context_lines never
\* change, whatever is appended to or evicted from the buffer and whatever the
\* scheduler and the publisher do.
SnapshotNeverChanges ==
    [][\A id \in Objects :
          /\ heap'[id].has_context = heap[id].has_context
          /\ heap'[id].context_lines = heap[id].context_lines]_vars

SnapshotOf(r) == SubSeq(r.context_lines, 3, Len(r.context_lines) - 1)

\* a reminder with context that has been given its url, whose channel's
\* buffer has since evicted a line and no longer holds what was captured
SnapshotOutlivesBuffer ==
    \E id \in Stored :
        /\ heap[id].has_context
        /\ Len(heap[id].pastebin_url) > 0
        /\ heap[id].channel \in DOMAIN context_buffer
        /\ Len(appended[heap[id].channel])
             > Len(context_buffer[heap[id].channel])
        /\ SnapshotOf(heap[id]) # context_buffer[heap[id].channel]
        /\ SnapshotOf(heap[id]) # << >>

\* C16: a save that fails removes its temporary file, leaves the durable
\* file as it was, keeps the store as the handler made it and does not raise;
\* a save that succeeds leaves the store's document as the durable file and
\* no temporary file.
SaveAttempted == Len(heap') = Len(heap) + 1
SaveFailed == Len(log') > Len(log)

SaveIsAtomic ==
    [][SaveAttempted =>
          /\ tmp_file' = << >>
          /\ raised' = "none"
          /\ Len(heap') \in StoreIds(reminders')
          /\ IF SaveFailed
             THEN file' = file /\ log'[Len(log')] = "error"
             ELSE /\ file' # << >>
                  /\ file'[1].reminders
                       = save_reminders_to_persistence(reminders', heap',
                                                       now').reminders]_vars

\* a save failed after one had succeeded: the file still holds the one
\* reminder of the earlier save while the store holds two
SaveFailedFileKept ==
    /\ Len(log) = 1
    /\ Len(heap) = 2
    /\ Cardinality(Stored) = 2
    /\ file # << >>
    /\ Len(ConcatAll([k \in 1..Len(file[1].reminders) |->
                         file[1].reminders[k].list])) = 1
    /\ tmp_file = << >>

\* C17: setup over a file that is not a parseable document, has no
\* reminders mapping or has a record lacking a required field gives an
\* empty store and a warning, and raises nothing.
Garbled(f) ==
    /\ f # << >>
    /\ \/ "reminders" \notin DOMAIN f[1]
       \/ \E k \in 1..Len(f[1].reminders) :
              \E i \in 1..Len(f[1].reminders[k].list) :
                  DOMAIN f[1].reminders[k].list[i]
                      # DOMAIN serialize(CHOOSE r \in FileReminders : TRUE)

GarbledFileLoadsEmpty ==
    [][(~started /\ started' /\ Garbled(file)) =>
          /\ raised' = "none"
          /\ reminders' = << >>
          /\ log' = <<"warning">>]_vars

\* C18: a step taken without the lock (the rate-limit wait and the upload of
\* the publisher) changes no buffer, not the store mapping and no field of a
\* stored reminder.
UnlockedStep ==
    /\ pub_pc \in {"limit", "call"}
    /\ pub_pc' # pub_pc \/ pub_i' # pub_i

UnlockedStepsLeaveStore ==
    [][UnlockedStep =>
          /\ context_buffer' = context_buffer
          /\ reminders' = reminders
          /\ \A id \in Stored : heap'[id] = heap[id]]_vars

\* C19: when an upload fails the run ends there, with no reconciliation and
\* no flush, and every stored reminder the run had selected still has the
\* empty paste_url it was selected with.
UploadFailed == pub_pc = "call" /\ pub_pc' = "idle"

AbortedRunLeavesUrls ==
    [][UploadFailed =>
          /\ file' = file
          /\ \A k \in 1..Len(upcoming) :
                 upcoming[k].id \in Stored =>
                     heap'[upcoming[k].id].pastebin_url = EmptyStr]_vars

\* C20: a publisher run selects exactly the stored reminders that have
\* context, an empty paste_url and a due_at less than 3600 seconds after the
\* run time, in the order of the store's conversations and then of their
\* lists; it uploads each of them once, in that order; with none selected
\* it uploads nothing, writes no file and changes no reminder.
WantsPaste(id) ==
    /\ heap[id].has_context
    /\ heap[id].pastebin_url = EmptyStr
    /\ heap[id].due_at - now < 3600 * TicksPerSecond

StoreRank(id) ==
    CHOOSE n \in 1..((Len(reminders) + 1) * (Len(heap) + 1)) :
        \E k \in 1..Len(reminders) :
            \E i \in 1..Len(reminders[k].list) :
                reminders[k].list[i] = id /\ n = k * (Len(heap) + 1) + i

IsSelection(sel) ==
    /\ {sel[k].id : k \in 1..Len(sel)} = {id \in Stored : WantsPaste(id)}
    /\ \A k \in 1..Len(sel) : sel[k].channel = KeyOf(sel[k].id)
    /\ \A k \in 1..Len(sel) : \A l \in 1..Len(sel) :
           k < l => StoreRank(sel[k].id) < StoreRank(sel[l].id)

RunStarts == pub_next_ts' # pub_next_ts /\ connected /\ DOMAIN channels # {}
Uploads == n_pastes' # n_pastes
UploadsDone == pub_pc # "reconcile" /\ pub_pc' = "reconcile"

PublisherUploadsSelection ==
    [][/\ RunStarts =>
            /\ IsSelection(upcoming')
            /\ UNCHANGED <<heap, reminders, file, n_pastes>>
            /\ pub_pc' = IF upcoming' = << >> THEN "idle" ELSE "limit"
       /\ Uploads =>
            /\ n_pastes' = n_pastes + 1
            /\ pub_pc = "call"
            /\ heap[upcoming[pub_i].id].pastebin_url = EmptyStr
            /\ heap'[upcoming[pub_i].id].pastebin_url
                 = create_pastebin_url(n_pastes')
            /\ \A id \in Objects \ {upcoming[pub_i].id} : heap'[id] = heap[id]
       /\ UploadsDone =>
            /\ upcoming' # << >>
            /\ \A k \in 1..Len(upcoming') :
                   heap'[upcoming'[k].id].pastebin_url
                     = create_pastebin_url(n_pastes' - Len(upcoming') + k)]_vars

\* the uploads of a run over two conversations are done: the reminder of
\* the first conversation of the store has the first url, the reminder of
\* the second the second
SelectedAcrossConversations ==
    /\ pub_pc = "reconcile"
    /\ Len(reminders) = 2
    /\ Len(upcoming) = 2
    /\ upcoming[1].channel = ChanD
    /\ upcoming[2].channel = ChanC
    /\ heap[upcoming[1].id].pastebin_url = create_pastebin_url(1)
    /\ heap[upcoming[2].id].pastebin_url = create_pastebin_url(2)

\* C21: whenever neither job is in progress, the reminders of the durable
\* file are those of the store (no write fails in this specification).
FileIsStore ==
    IF file = << >> THEN reminders = << >>
    ELSE file[1].reminders
           = save_reminders_to_persistence(reminders, heap, now).reminders

FlushedOnEveryMutation ==
    (sched_pc = "idle" /\ pub_pc = "idle") => FileIsStore

\* C22: a run of the delivery job leaves every reminder that is due and not
\* deliverable (its channel unknown to the transport or its recipient not in
\* it; in private, no known user with the bound hostmask) in the store,
\* unchanged, not said, in the order it had, and raises nothing.
DueNotDeliverable ==
    {id \in Stored : /\ heap[id].due_at < reminders_as_at
                     /\ ~Reachable(KeyOf(id), heap[id])}

KeptOf(lst) == SelectSeq(lst, LAMBDA id : id \in DueNotDeliverable)

NotDeliverableLeftInPlace ==
    [][(sched_pc = "locked" /\ sched_pc' = "idle") =>
          /\ raised' = raised
          /\ Len(reminders') = Len(reminders)
          /\ \A k \in 1..Len(reminders) :
                 /\ reminders'[k].channel = reminders[k].channel
                 /\ KeptOf(reminders'[k].list) = KeptOf(reminders[k].list)
          /\ \A id \in DueNotDeliverable :
                 heap'[id] = heap[id] /\ delivered'[id] = delivered[id]]_vars

\* the job has read the clock and holds the lock over a store with a due
\* reminder of a channel whose recipient has left, next to a private one
DueRecipientAbsent ==
    /\ sched_pc = "locked"
    /\ \E id \in DueNotDeliverable : ~IsPrivateKey(KeyOf(id))
    /\ \E id \in DueNotDeliverable : IsPrivateKey(KeyOf(id))

\* C23: every stored reminder without context has no context lines and no
\* paste_url.
NoContextNoPaste ==
    \A id \in Stored :
        ~heap[id].has_context =>
            /\ heap[id].context_lines = << >>
            /\ heap[id].pastebin_url = EmptyStr

\* a publisher run has ended over a store with a reminder without context
\* and one with context, which has its url
PlainBesidePublished ==
    /\ pub_pc = "idle"
    /\ \E id \in Stored : ~heap[id].has_context
    /\ \E id \in Stored : /\ heap[id].has_context
                           /\ heap[id].pastebin_url # EmptyStr
                           /\ file # << >>
                           /\ \E k \in 1..Len(file[1].reminders) :
                                  \E i \in 1..Len(file[1].reminders[k].list) :
                                      file[1].reminders[k].list[i].pastebin_url
                                          = heap[id].pastebin_url

\* C24: reconciliation leaves the store's keys and lists as they are, and
\* changes of a reminder nothing but its paste_url, and that only when the
\* reminder is stored and equal in every field to an uploaded one of its
\* conversation; the flush that follows writes that store.
WithoutUrl(r) == [r EXCEPT !.pastebin_url = EmptyStr]

ReconcileOnlySetsUrl ==
    [][(pub_pc = "reconcile" /\ pub_pc' = "idle") =>
          /\ reminders' = reminders
          /\ Len(heap') = Len(heap)
          /\ \A id \in Objects :
                 /\ WithoutUrl(heap'[id]) = WithoutUrl(heap[id])
                 /\ heap'[id] # heap[id] =>
                        /\ id \in Stored
                        /\ \E k \in 1..Len(upcoming) :
                               /\ upcoming[k].channel = KeyOf(id)
                               /\ heap[upcoming[k].id] = heap[id]
          /\ file' # << >>
          /\ file'[1].reminders
               = save_reminders_to_persistence(reminders', heap', now').reminders]_vars

\* the uploads of a run are done; a reminder it had selected has been
\* delivered and removed since, and the store holds a reminder that the
\* selection would have taken had it existed then
StoreChangedDuringUploads ==
    /\ pub_pc = "reconcile"
    /\ \E k \in 1..Len(upcoming) :
           upcoming[k].id \notin Stored /\ delivered[upcoming[k].id] = 1
    /\ \E id \in Stored :
           /\ heap[id].has_context
           /\ heap[id].pastebin_url = EmptyStr
           /\ \A k \in 1..Len(upcoming) : upcoming[k].id # id

\* C25: every stored reminder is held under the key that is its own channel
\* field, in a channel and in private alike.
StoredUnderOwnChannel ==
    \A id \in Stored : KeyOf(id) = heap[id].channel

\* C26: the context of a reminder holds at most as many buffered lines as
\* the buffer's capacity: context_lines has at most capacity + 3 entries.
ContextWithinCapacity ==
    \A id \in Objects :
        heap[id].has_context =>
            Len(heap[id].context_lines) <= conf.chat_lines + 3

=============================================================================
